---- MODULE Spec2Model ----
(***************************************************************************)
(* The job queue and batch-extraction pipeline of linkedin-harvest-agent:  *)
(* JobQueue (job-queue.ts), the storage it writes to (storage.ts) and the  *)
(* retry executor extractProfileWithRetry with categorizeError.            *)
(*                                                                         *)
(* JavaScript runs the code on one thread: a step of the model is the code *)
(* that runs between two awaits. Line numbers refer to                     *)
(* src/unnamed/part_014 (job-queue.ts) unless another file is named.       *)
(***************************************************************************)
EXTENDS Integers, Sequences, FiniteSets, Bags, TLC

VARIABLES
    jobs,          \* JobQueue.jobs: queue id -> ProcessingJob (Map, insertion order = id order)
    processing,    \* JobQueue.processing
    currentJobId,  \* JobQueue.currentJobId
    runs,          \* the activations of startProcessing that are suspended at an await
    dbJobs,        \* storage: the jobs table, id -> row
    dbProfiles,    \* storage: the profiles table, a bag of rows (the id of a row is left out)
    resumes,       \* number of resumeJob calls that took effect (bounded)
    finished,      \* history: queue id -> the item indices whose attempt ended success or failed
    env,           \* what the collaborators may do: provider outcomes, storage errors, files
    retry,         \* a stand-alone activation of extractProfileWithRetry
    classified,    \* a stand-alone call of categorizeError: the value and the result
    progress       \* a stand-alone progress update of processJob: the inputs and what is written

vars == <<jobs, processing, currentJobId, runs, dbJobs, dbProfiles, resumes, finished, env,
          retry, classified, progress>>

-----------------------------------------------------------------------------
(* Bounds of the model *)

MaxJobs == 2        \* addJob calls, and rows of the jobs table
MaxResumes == 1     \* resumeJob calls that take effect
MaxRetriesArg == 3  \* largest maxRetries the stand-alone executor is called with
MaxTotal == 4       \* most items of the list in a stand-alone progress update

(* Program constants *)

MAX_RETRIES == 3        \* the maxRetries processJob passes, line 153
INITIAL_DELAY == 1000   \* let delay = 1000, line 272
RETRY_LIMIT == 3        \* retryCount < 3, line 178

-----------------------------------------------------------------------------
(* CONFIG.ERROR_TYPES, src/unnamed/part_010 lines 142-148, and the fallback *)
(* 'unknown' of categorizeError                                            *)

CAPTCHA == "captcha"
NOT_FOUND == "not_found"
ACCESS_RESTRICTED == "access_restricted"
RATE_LIMIT == "rate_limit"
UNKNOWN == "unknown"
ErrorKinds == {CAPTCHA, NOT_FOUND, ACCESS_RESTRICTED, RATE_LIMIT, UNKNOWN}

(* String.prototype.toLowerCase, character by character *)
lowerChar(c) ==
    CASE c = "A" -> "a" [] c = "B" -> "b" [] c = "C" -> "c" [] c = "D" -> "d"
      [] c = "E" -> "e" [] c = "F" -> "f" [] c = "G" -> "g" [] c = "H" -> "h"
      [] c = "I" -> "i" [] c = "J" -> "j" [] c = "K" -> "k" [] c = "L" -> "l"
      [] c = "M" -> "m" [] c = "N" -> "n" [] c = "O" -> "o" [] c = "P" -> "p"
      [] c = "Q" -> "q" [] c = "R" -> "r" [] c = "S" -> "s" [] c = "T" -> "t"
      [] c = "U" -> "u" [] c = "V" -> "v" [] c = "W" -> "w" [] c = "X" -> "x"
      [] c = "Y" -> "y" [] c = "Z" -> "z" [] OTHER -> c

RECURSIVE toLowerCase(_)
toLowerCase(s) ==
    IF Len(s) = 0 THEN s
    ELSE lowerChar(SubSeq(s, 1, 1)) \o toLowerCase(SubSeq(s, 2, Len(s)))

(* String.prototype.includes *)
includes(s, t) ==
    \E i \in 1..(Len(s) - Len(t) + 1) : SubSeq(s, i, i + Len(t) - 1) = t

(* A thrown value: an Error with a message, or some other value *)
Err(m) == [isError |-> TRUE, message |-> m]
NonError == [isError |-> FALSE, message |-> ""]

categorizeErrorNoNotFound(error) ==
    IF error.isError
    THEN LET message == toLowerCase(error.message) IN
         IF includes(message, "captcha") \/ includes(message, "challenge") THEN CAPTCHA
         ELSE IF includes(message, "restricted") \/ includes(message, "403")
                 \/ includes(message, "unauthorized") THEN ACCESS_RESTRICTED
         ELSE IF includes(message, "rate limit") \/ includes(message, "429") THEN RATE_LIMIT
         ELSE UNKNOWN
    ELSE UNKNOWN

categorizeError(error) ==
    IF error.isError
    THEN LET message == toLowerCase(error.message) IN
         IF includes(message, "captcha") \/ includes(message, "challenge") THEN CAPTCHA
         ELSE IF includes(message, "not found") \/ includes(message, "404") THEN NOT_FOUND
         ELSE IF includes(message, "restricted") \/ includes(message, "403")
                 \/ includes(message, "unauthorized") THEN ACCESS_RESTRICTED
         ELSE IF includes(message, "rate limit") \/ includes(message, "429") THEN RATE_LIMIT
         ELSE UNKNOWN
    ELSE UNKNOWN

(* The messages of the simulated provider, lines 320-322 *)
SimulatedErrors ==
    { "Simulated LinkedIn API error: rate_limit",
      "Simulated LinkedIn API error: profile_not_found",
      "Simulated LinkedIn API error: access_restricted",
      "Simulated LinkedIn API error: captcha_required" }

SimulatedThrows == {Err(m) : m \in SimulatedErrors}

(* The messages of LinkedInService.getProfile for the statuses 403, 404,    *)
(* 429 and 401, src/server/services/excel-processor.ts lines 349-359        *)
ProviderErrors ==
    { "access_restricted", "profile_not_found", "rate_limit_exceeded",
      "unauthorized_token_expired" }

ProviderThrows == {Err(m) : m \in ProviderErrors}

(* Messages a unit of work may fail with: the provider's and a status text  *)
(* of each kind                                                            *)
ErrorMessages ==
    SimulatedErrors \cup
    { "rate limit exceeded", "Request failed with status code 404",
      "Profile Not Found", "403 Forbidden", "CAPTCHA challenge", "socket hang up",
      "Connection terminated unexpectedly" }

(* What a failing storage call throws *)
StorageError == "Connection terminated unexpectedly"

(* categorizeError on the messages in use, evaluated once *)
kindOf == [m \in ErrorMessages |-> categorizeError(Err(m))]

OK == "ok"   \* the outcome of an attempt that returns a profile

-----------------------------------------------------------------------------
(* extractProfileWithRetry, lines 266-344. A frame holds the locals of one  *)
(* activation; calls and waited record the invocations of the unit of work  *)
(* (the try block) and the backoff delay taken so far.                      *)

NoFrame ==
    [pc |-> "none", maxRetries |-> 0, retryCount |-> 0, delay |-> 0,
     calls |-> 0, waited |-> 0, result |-> OK]

(* lines 271-277: the call runs up to the first await of the try block *)
extractProfileWithRetryFromOne(maxRetries) ==
    [pc |-> IF 0 < maxRetries THEN "attempt" ELSE "thrown",
     maxRetries |-> maxRetries, retryCount |-> 1, delay |-> INITIAL_DELAY,
     calls |-> 0, waited |-> 0,
     result |-> IF 0 < maxRetries THEN OK ELSE "Max retries exceeded"]

extractProfileWithRetry(maxRetries) ==
    IF 0 < maxRetries
    THEN [pc |-> "attempt", maxRetries |-> maxRetries, retryCount |-> 0,
          delay |-> INITIAL_DELAY, calls |-> 0, waited |-> 0, result |-> OK]
    ELSE \* line 343
         [pc |-> "thrown", maxRetries |-> maxRetries, retryCount |-> 0,
          delay |-> INITIAL_DELAY, calls |-> 0, waited |-> 0,
          result |-> "Max retries exceeded"]

(* lines 277-338: the attempt ends with outcome (OK or an error message) *)
attemptAlwaysRetries(f, outcome) ==
    LET g == [f EXCEPT !.calls = @ + 1] IN
    IF outcome = OK THEN [g EXCEPT !.pc = "returned", !.result = OK]
    ELSE IF f.retryCount + 1 >= f.maxRetries
         THEN [g EXCEPT !.pc = "thrown", !.result = outcome, !.retryCount = @ + 1]
         ELSE [g EXCEPT !.pc = "backoff", !.retryCount = @ + 1]

attempt(f, outcome) ==
    LET g == [f EXCEPT !.calls = @ + 1] IN
    IF outcome = OK THEN [g EXCEPT !.pc = "returned", !.result = OK]
    ELSE LET errorType == kindOf[outcome] IN
         IF errorType = ACCESS_RESTRICTED \/ errorType = NOT_FOUND
         THEN [g EXCEPT !.pc = "thrown", !.result = outcome]
         ELSE IF f.retryCount + 1 >= f.maxRetries
              THEN [g EXCEPT !.pc = "thrown", !.result = outcome, !.retryCount = @ + 1]
              ELSE [g EXCEPT !.pc = "backoff", !.retryCount = @ + 1]

(* lines 338-339 and 274-277: the backoff delay, then the next attempt     *)
(* starts                                                                  *)
backoffNoDoubling(f) ==
    [f EXCEPT !.pc = "attempt", !.waited = @ + f.delay]

backoff(f) ==
    [f EXCEPT !.pc = "attempt", !.waited = @ + f.delay, !.delay = 2 * @]

(* The while loop of lines 274-341 from frame f to its return or throw,     *)
(* work[n] being the outcome of the n-th attempt from here                  *)
RECURSIVE execute(_, _)
execute(f, work) ==
    IF f.pc # "attempt" \/ work = << >> THEN f
    ELSE LET g == attempt(f, Head(work)) IN
         execute(IF g.pc = "backoff" THEN backoff(g) ELSE g, Tail(work))

(* The ways a call with maxRetries can end when each attempt's outcome is   *)
(* one of outcomes                                                          *)
executions(maxRetries, outcomes) ==
    { execute(extractProfileWithRetry(maxRetries), work) :
        work \in [1..maxRetries -> outcomes] }

-----------------------------------------------------------------------------
(* The collaborators *)

(* The row extractor: ExcelParser.parseLinkedInUrls(filePath),             *)
(* src/server/services/excel/exporter.ts lines 142-181, on the files in use *)
parseLinkedInUrls(filePath) ==
    CASE filePath = "empty.xlsx" -> << >>
      [] filePath = "one.xlsx"   -> <<"in/a">>
      [] filePath = "two.xlsx"   -> <<"in/a", "in/b">>
      [] filePath = "three.xlsx" -> <<"in/a", "in/b", "in/c">>
      [] filePath = "dup.xlsx"   -> <<"in/a", "in/a">>
      [] filePath = "triple.xlsx" -> <<"in/a", "in/a", "in/a">>
      [] filePath = "five.xlsx"  -> <<"in/a", "in/b", "in/c", "in/d", "in/e">>

Urls == {"in/a", "in/b", "in/c", "in/d", "in/e"}

(* MemStorage/DatabaseStorage.updateJobStatus, src/unnamed/part_008 lines   *)
(* 204-213 and 440-450: set status, then assign the given fields           *)
updateJobStatus(db, id, status, data) ==
    IF id \in DOMAIN db
    THEN [db EXCEPT ![id] =
            [fld \in DOMAIN @ |->
                IF fld = "status" THEN status
                ELSE IF fld \in DOMAIN data THEN data[fld] ELSE @[fld]]]
    ELSE db

NoData == [fld \in {} |-> 0]

(* createJob, src/unnamed/part_008 lines 171-192 and 413-426 *)
createJob(db, filePath, totalProfiles) ==
    LET id == Cardinality(DOMAIN db) + 1 IN
    [n \in DOMAIN db \cup {id} |->
        IF n = id
        THEN [status |-> "pending", filePath |-> filePath,
              totalProfiles |-> totalProfiles, processedProfiles |-> 0,
              successfulProfiles |-> 0, failedProfiles |-> 0,
              resultPath |-> 0, completedAt |-> FALSE]
        ELSE db[n]]

(* createProfile, src/unnamed/part_008 lines 221-235 and 465-471 *)
pendingProfile(jobId, url) ==
    [jobId |-> jobId, linkedinUrl |-> url, status |-> "pending",
     retryCount |-> 0, errorType |-> "none"]

createProfile(profs, jobId, url) == profs (+) SetToBag({pendingProfile(jobId, url)})

(* lines 118-124: one createProfile per parsed URL *)
RECURSIVE createProfiles(_, _, _)
createProfiles(profs, jobId, urls) ==
    IF urls = << >> THEN profs
    ELSE createProfiles(createProfile(profs, jobId, Head(urls)), jobId, Tail(urls))

(* routes.ts lines 408-420: createProfile unless the job has the URL already *)
RECURSIVE createProfilesDedup(_, _, _)
createProfilesDedup(profs, jobId, urls) ==
    IF urls = << >> THEN profs
    ELSE LET exists == \E p \in BagToSet(profs) :
                          p.jobId = jobId /\ p.linkedinUrl = Head(urls)
         IN createProfilesDedup(
                IF exists THEN profs ELSE createProfile(profs, jobId, Head(urls)),
                jobId, Tail(urls))

(* getProfilesByJob(jobId).find(p => p.linkedinUrl === url), lines 157-158  *)
(* and 170-171: the rows find may return. DatabaseStorage selects without  *)
(* ORDER BY (src/unnamed/part_008 lines 473-478), so any matching row may  *)
(* come first.                                                             *)
findProfile(profs, jobId, url) ==
    {p \in BagToSet(profs) : p.jobId = jobId /\ p.linkedinUrl = url}

(* updateProfileStatus, src/unnamed/part_008 lines 241-250 and 480-490, on  *)
(* the row that find returned                                              *)
updateProfileStatus(profs, row, status, retryCount, errorType) ==
    (profs (-) SetToBag({row}))
        (+) SetToBag({[row EXCEPT !.status = status, !.retryCount = retryCount,
                                  !.errorType = errorType]})

-----------------------------------------------------------------------------
(* JobQueue, lines 24-264 *)

(* A frame of startProcessing/processJob: the locals of the activation,     *)
(* and as history started and after (see start) and limit: -1 until         *)
(* pauseJob or stopJob reaches the job of the run, then the first item      *)
(* index of the batches that had not begun.                                 *)
NoJobData ==
    [jobId |-> 0, filePath |-> "", batchSize |-> 0]

NoRun ==
    [pc |-> "none", job |-> 0, data |-> NoJobData, urls |-> << >>, i |-> 0,
     k |-> 0, processed |-> 0, successful |-> 0, failed |-> 0, ex |-> NoFrame,
     limit |-> -1, started |-> << >>, after |-> 0]

statusOf(js, id) == IF id \in DOMAIN js THEN js[id].status ELSE "absent"

setStatus(js, id, status) ==
    IF id \in DOMAIN js THEN [js EXCEPT ![id].status = status] ELSE js

delete(js, id) == [n \in DOMAIN js \ {id} |-> js[n]]

(* getNextJob, lines 92-99: the first pending job in insertion order *)
getNextJobLast(js) ==
    LET pending == {id \in DOMAIN js : js[id].status = "pending"} IN
    IF pending = {} THEN 0 ELSE CHOOSE id \in pending : \A o \in pending : id >= o

getNextJob(js) ==
    LET pending == {id \in DOMAIN js : js[id].status = "pending"} IN
    IF pending = {} THEN 0 ELSE CHOOSE id \in pending : \A o \in pending : id <= o

(* lines 82-88 and 102-108: one turn of the while loop, up to the first     *)
(* await of processJob                                                     *)
nextIteration(js, db) ==
    LET nextJob == getNextJob(js) IN
    IF nextJob = 0
    THEN [jobs |-> js, db |-> db, processing |-> FALSE, frame |-> NoRun]
    ELSE [jobs |-> setStatus(js, nextJob, "processing"),
          db |-> updateJobStatus(db, js[nextJob].data.jobId, "processing", NoData),
          processing |-> TRUE,
          frame |-> [NoRun EXCEPT !.pc = "parse", !.job = nextJob,
                                  !.data = js[nextJob].data]]

(* startProcessing, lines 76-81 *)
startProcessingNoFlag(js, db, proc) ==
    [nextIteration(js, db) EXCEPT !.processing = FALSE]

startProcessing(js, db, proc) ==
    IF proc
    THEN [jobs |-> js, db |-> db, processing |-> proc, frame |-> NoRun]
    ELSE nextIteration(js, db)

(* line 150: the item at index k is handed to the executor. History:       *)
(* started lists the items of the run in the order they were handed over,  *)
(* after counts those handed over since pauseJob or stopJob reached the    *)
(* run.                                                                    *)
start(f, k) ==
    [f EXCEPT !.k = k, !.started = Append(@, k),
              !.after = IF f.limit >= 0 THEN @ + 1 ELSE @]

(* lines 139-150 and 217-218: the head of the batch loop *)
enterBatchNoCheck(f, js) ==
    IF f.i >= Len(f.urls)
    THEN [kind |-> "go", jobs |-> setStatus(js, f.job, "completed"),
          frame |-> [f EXCEPT !.pc = "compile"]]
    ELSE [kind |-> "go", jobs |-> js, frame |-> start([f EXCEPT !.pc = "item"], f.i)]

enterBatchBreaksOnHalt(f, js) ==
    IF f.i >= Len(f.urls) \/ statusOf(js, f.job) # "processing"
    THEN [kind |-> "go", jobs |-> setStatus(js, f.job, "completed"),
          frame |-> [f EXCEPT !.pc = "compile"]]
    ELSE [kind |-> "go", jobs |-> js, frame |-> start([f EXCEPT !.pc = "item"], f.i)]

enterBatch(f, js) ==
    IF f.i >= Len(f.urls)
    THEN [kind |-> "go", jobs |-> setStatus(js, f.job, "completed"),
          frame |-> [f EXCEPT !.pc = "compile"]]
    ELSE IF statusOf(js, f.job) # "processing"
    THEN [kind |-> "return", jobs |-> js, frame |-> f]
    ELSE [kind |-> "go", jobs |-> js, frame |-> start([f EXCEPT !.pc = "item"], f.i)]

(* lines 255-263: the catch block of processJob; updateFails: its           *)
(* updateJobStatus throws, and processJob and startProcessing reject        *)
catchBlock(f, js, db, profs, updateFails) ==
    LET failedJobs == setStatus(js, f.job, "failed") IN
    IF updateFails
    THEN [kind |-> "crash", jobs |-> failedJobs, db |-> db, profs |-> profs, frame |-> f]
    ELSE [kind |-> "return", jobs |-> delete(failedJobs, f.job),
          db |-> updateJobStatus(db, f.data.jobId, "failed",
                                 [completedAt |-> TRUE]),
          profs |-> profs, frame |-> f]

NoRow == pendingProfile(0, "")

kind(message) ==
    IF message \in DOMAIN kindOf THEN kindOf[message] ELSE categorizeError(Err(message))

(* lines 148-150 and 209-215: after an item, the next item of the batch or  *)
(* the delay before the next batch                                         *)
advanceSkipsOne(f) ==
    IF f.k + 2 < f.i + f.data.batchSize /\ f.k + 2 < Len(f.urls)
    THEN start([f EXCEPT !.ex = NoFrame], f.k + 2)
    ELSE [f EXCEPT !.pc = "batch", !.i = f.i + f.data.batchSize, !.ex = NoFrame]

advance(f) ==
    IF f.k + 1 < f.i + f.data.batchSize /\ f.k + 1 < Len(f.urls)
    THEN start([f EXCEPT !.ex = NoFrame], f.k + 1)
    ELSE [f EXCEPT !.pc = "batch", !.i = f.i + f.data.batchSize, !.ex = NoFrame]

(* line 178 *)
shouldRetryUpToLimit(retryCount, errorType) ==
    retryCount <= RETRY_LIMIT /\ errorType # NOT_FOUND /\ errorType # ACCESS_RESTRICTED

shouldRetry(retryCount, errorType) ==
    retryCount < RETRY_LIMIT /\ errorType # NOT_FOUND /\ errorType # ACCESS_RESTRICTED

(* lines 167, 190 and 193: the counters of the run after an item *)
countForgetsFailed(f, threw) ==
    [f EXCEPT !.successful = IF threw THEN @ ELSE @ + 1, !.processed = @ + 1]

count(f, threw) ==
    [f EXCEPT !.successful = IF threw THEN @ ELSE @ + 1,
              !.failed = IF threw THEN @ + 1 ELSE @,
              !.processed = @ + 1]

(* lines 156-207: the executor has returned or thrown; row is the profile   *)
(* find returns (NoRow: none). fault names the storage call that throws: "try"  *)
(* one of lines 157-165, "catch" one of lines 170-187, "progress" line 201. *)
recordItemAbortsWhenExhausted(f, js, db, profs, row, fault, updateFails) ==
    LET threw == f.ex.pc = "thrown" \/ fault \in {"try", "catch"}
        error == IF f.ex.pc = "thrown" THEN f.ex.result ELSE StorageError
        errorType == kind(error)
        retryCount == row.retryCount + 1
        label == IF shouldRetry(retryCount, errorType) THEN "retrying" ELSE "failed"
        profs1 == IF row = NoRow THEN profs
                  ELSE IF threw
                  THEN updateProfileStatus(profs, row, label, retryCount, errorType)
                  ELSE updateProfileStatus(profs, row, "success",
                                           row.retryCount, row.errorType)
        g == count(f, threw)
        db1 == updateJobStatus(db, f.data.jobId, "processing",
                   [processedProfiles |-> g.processed,
                    successfulProfiles |-> g.successful,
                    failedProfiles |-> g.failed])
        terminal == row # NoRow /\ (~threw \/ label = "failed")
    IN  IF f.ex.pc = "thrown" /\ f.ex.retryCount >= f.ex.maxRetries
        THEN [catchBlock(f, js, db, profs, updateFails) EXCEPT !.frame = f]
                 @@ [fin |-> {}]
        ELSE IF fault = "catch"
        THEN [catchBlock(f, js, db, profs, updateFails) EXCEPT !.frame = f]
                 @@ [fin |-> {}]
        ELSE IF fault = "progress"
        THEN catchBlock(g, js, db, profs1, updateFails)
                 @@ [fin |-> IF terminal THEN {f.k} ELSE {}]
        ELSE [kind |-> "go", jobs |-> js, db |-> db1, profs |-> profs1,
              frame |-> advance(g), fin |-> IF terminal THEN {f.k} ELSE {}]

recordItem(f, js, db, profs, row, fault, updateFails) ==
    LET threw == f.ex.pc = "thrown" \/ fault \in {"try", "catch"}
        error == IF f.ex.pc = "thrown" THEN f.ex.result ELSE StorageError
        errorType == kind(error)
        retryCount == row.retryCount + 1
        label == IF shouldRetry(retryCount, errorType) THEN "retrying" ELSE "failed"
        profs1 == IF row = NoRow THEN profs
                  ELSE IF threw
                  THEN updateProfileStatus(profs, row, label, retryCount, errorType)
                  ELSE updateProfileStatus(profs, row, "success",
                                           row.retryCount, row.errorType)
        g == count(f, threw)
        db1 == updateJobStatus(db, f.data.jobId, "processing",
                   [processedProfiles |-> g.processed,
                    successfulProfiles |-> g.successful,
                    failedProfiles |-> g.failed])
        terminal == row # NoRow /\ (~threw \/ label = "failed")
    IN  IF fault = "catch"
        THEN [catchBlock(f, js, db, profs, updateFails) EXCEPT !.frame = f]
                 @@ [fin |-> {}]
        ELSE IF fault = "progress"
        THEN catchBlock(g, js, db, profs1, updateFails)
                 @@ [fin |-> IF terminal THEN {f.k} ELSE {}]
        ELSE [kind |-> "go", jobs |-> js, db |-> db1, profs |-> profs1,
              frame |-> advance(g), fin |-> IF terminal THEN {f.k} ELSE {}]

-----------------------------------------------------------------------------
(* The steps of the processing loop *)

(* Whether the call named fault throws: it can when env.faults names it.    *)
(* "parse": the parser or a storage call of lines 106-111; "noToken": the   *)
(* user has no linkedinAccessToken (line 128); "try", "catch", "progress":  *)
(* a storage call of lines 157-165, 170-187, 201; "compile": one of lines   *)
(* 221-250; "update": the updateJobStatus of the catch block (line 257).    *)
Throws(fault) == IF fault \in env.faults THEN BOOLEAN ELSE {FALSE}

remove(seq, n) == SubSeq(seq, 1, n - 1) \o SubSeq(seq, n + 1, Len(seq))

(* The activation n goes on after a step with result r. On "return"        *)
(* processJob has returned and the loop takes its next turn (line 81); on   *)
(* "crash" processJob has thrown and the activation is gone, the flag left  *)
(* as it is.                                                               *)
Continue(n, r) ==
    /\ dbProfiles' = r.profs
    /\ CASE r.kind = "go" ->
              /\ runs' = [runs EXCEPT ![n] = r.frame]
              /\ jobs' = r.jobs
              /\ dbJobs' = r.db
              /\ UNCHANGED processing
         [] r.kind = "crash" ->
              /\ runs' = remove(runs, n)
              /\ jobs' = r.jobs
              /\ dbJobs' = r.db
              /\ UNCHANGED processing
         [] r.kind = "return" ->
              IF processing
              THEN LET d == nextIteration(r.jobs, r.db) IN
                   /\ runs' = IF d.frame.pc = "none" THEN remove(runs, n)
                              ELSE [runs EXCEPT ![n] = d.frame]
                   /\ jobs' = d.jobs
                   /\ dbJobs' = d.db
                   /\ processing' = d.processing
              ELSE /\ runs' = remove(runs, n)
                   /\ jobs' = r.jobs
                   /\ dbJobs' = r.db
                   /\ UNCHANGED processing

(* lines 106-150: the first updateJobStatus has come back; parse, create    *)
(* the profile rows, get the user, enter the batch loop. fault: the parser  *)
(* or a storage call before createProfile throws; noToken: the user has no  *)
(* linkedinAccessToken (line 128).                                          *)
ProcessJobParse(n) ==
    /\ runs[n].pc = "parse"
    /\ \E fault \in Throws("parse"), noToken \in Throws("noToken"),
          updateFails \in Throws("update") :
        LET f == runs[n]
            urls == parseLinkedInUrls(f.data.filePath)
            profs1 == createProfiles(dbProfiles, f.data.jobId, urls)
            e == enterBatch([f EXCEPT !.urls = urls], jobs)
        IN  IF fault \/ urls = << >>
            THEN /\ ~noToken
                 /\ Continue(n, catchBlock(f, jobs, dbJobs, dbProfiles, updateFails))
            ELSE IF noToken
            THEN Continue(n, catchBlock(f, jobs, dbJobs, profs1, updateFails))
            ELSE /\ ~updateFails
                 /\ Continue(n, [kind |-> e.kind, jobs |-> e.jobs, db |-> dbJobs,
                                 profs |-> profs1, frame |-> e.frame])
    /\ UNCHANGED <<currentJobId, resumes, finished, env, retry, classified, progress>>

(* lines 139-150 after the delays of lines 210 and 214 *)
ProcessJobBatch(n) ==
    /\ runs[n].pc = "batch"
    /\ LET e == enterBatch(runs[n], jobs) IN
       Continue(n, [kind |-> e.kind, jobs |-> e.jobs, db |-> dbJobs,
                    profs |-> dbProfiles, frame |-> e.frame])
    /\ UNCHANGED <<currentJobId, resumes, finished, env, retry, classified, progress>>

(* lines 150-211: extractProfileWithRetry returns or throws, the scheduler  *)
(* records the item. The awaits inside the executor are delays during which *)
(* the queue's operations change nothing the executor reads, so the call is *)
(* one step here.                                                           *)
ProcessJobItem(n) ==
    /\ runs[n].pc = "item"
    /\ LET f == runs[n]
           url == f.urls[f.k + 1]
           rows == findProfile(dbProfiles, f.data.jobId, url)
       IN \E ex \in executions(MAX_RETRIES, env.provider[url]) :
          LET f1 == [f EXCEPT !.ex = ex] IN
               \E row \in (IF rows = {} THEN {NoRow} ELSE rows),
                  fault \in {"none"} \cup (env.faults \cap {"catch", "progress"})
                            \cup (IF f1.ex.pc = "returned"
                                  THEN env.faults \cap {"try"} ELSE {}),
                  updateFails \in Throws("update") :
               LET r == recordItem(f1, jobs, dbJobs, dbProfiles, row, fault,
                                   updateFails)
               IN  /\ fault \in {"none", "try"} => ~updateFails
                   /\ Continue(n, r)
                   /\ finished' = [finished EXCEPT ![f.job] = @ \cup r.fin]
    /\ UNCHANGED <<currentJobId, resumes, env, retry, classified, progress>>

(* lines 220-253: compile the results, mark the job completed, forget it.   *)
(* saveJobResults throws when the job row is missing                        *)
(* (src/server/services/excel/exporter.ts lines 57-60) or the write fails.  *)
ProcessJobCompile(n) ==
    /\ runs[n].pc = "compile"
    /\ \E fault \in Throws("compile"), updateFails \in Throws("update") :
        LET f == runs[n] IN
        IF fault \/ f.data.jobId \notin DOMAIN dbJobs
        THEN Continue(n, catchBlock(f, jobs, dbJobs, dbProfiles, updateFails))
        ELSE /\ ~updateFails
             /\ Continue(n, [kind |-> "return", jobs |-> delete(jobs, f.job),
                    db |-> updateJobStatus(dbJobs, f.data.jobId, "completed",
                              [completedAt |-> TRUE, resultPath |-> f.data.jobId]),
                    profs |-> dbProfiles, frame |-> f])
    /\ UNCHANGED <<currentJobId, resumes, finished, env, retry, classified, progress>>

-----------------------------------------------------------------------------
(* The operations of the queue, and the job row their caller creates *)

(* The result d of startProcessing, called from addJob or resumeJob *)
Started(d) ==
    /\ jobs' = d.jobs
    /\ dbJobs' = d.db
    /\ processing' = d.processing
    /\ runs' = IF d.frame.pc = "none" THEN runs ELSE Append(runs, d.frame)

(* addJob, lines 34-50 *)
addJobNoStart(data) ==
    LET jobId == currentJobId
        job == [data |-> data, status |-> "pending", retryCount |-> 0]
        js == [n \in DOMAIN jobs \cup {jobId} |-> IF n = jobId THEN job ELSE jobs[n]]
    IN  /\ currentJobId' = currentJobId + 1
        /\ finished' = [n \in DOMAIN finished \cup {jobId} |->
                            IF n = jobId THEN {} ELSE finished[n]]
        /\ jobs' = js
        /\ UNCHANGED <<dbJobs, processing, runs>>
        /\ UNCHANGED <<dbProfiles, resumes, env, retry, classified, progress>>

addJob(data) ==
    LET jobId == currentJobId
        job == [data |-> data, status |-> "pending", retryCount |-> 0]
        js == [n \in DOMAIN jobs \cup {jobId} |-> IF n = jobId THEN job ELSE jobs[n]]
    IN  /\ currentJobId' = currentJobId + 1
        /\ finished' = [n \in DOMAIN finished \cup {jobId} |->
                            IF n = jobId THEN {} ELSE finished[n]]
        /\ IF ~processing
           THEN Started(startProcessing(js, dbJobs, processing))
           ELSE /\ jobs' = js
                /\ UNCHANGED <<dbJobs, processing, runs>>
        /\ UNCHANGED <<dbProfiles, resumes, env, retry, classified, progress>>

(* history: pauseJob or stopJob reaches the job of an activation           *)
markHalt(id) ==
    [n \in 1..Len(runs) |->
        LET f == runs[n] IN
        IF f.job = id /\ f.limit = -1
        THEN [f EXCEPT !.limit =
                 IF f.pc = "item"
                 THEN (IF f.i + f.data.batchSize < Len(f.urls)
                       THEN f.i + f.data.batchSize ELSE Len(f.urls))
                 ELSE IF f.pc = "compile" \/ f.i > Len(f.urls) THEN Len(f.urls)
                 ELSE f.i]
        ELSE f]

(* pauseJob, lines 52-57 *)
pauseJobAnyStatus(jobId) ==
    /\ IF jobId \in DOMAIN jobs
       THEN /\ jobs' = setStatus(jobs, jobId, "paused")
            /\ runs' = markHalt(jobId)
       ELSE UNCHANGED <<jobs, runs>>
    /\ UNCHANGED <<processing, currentJobId, dbJobs, dbProfiles, resumes, finished,
                   env, retry, classified, progress>>

pauseJob(jobId) ==
    /\ IF jobId \in DOMAIN jobs /\ statusOf(jobs, jobId) = "processing"
       THEN /\ jobs' = setStatus(jobs, jobId, "paused")
            /\ runs' = markHalt(jobId)
       ELSE UNCHANGED <<jobs, runs>>
    /\ UNCHANGED <<processing, currentJobId, dbJobs, dbProfiles, resumes, finished,
                   env, retry, classified, progress>>

(* stopJob, lines 59-64 *)
stopJobOnlyProcessing(jobId) ==
    /\ IF jobId \in DOMAIN jobs /\ statusOf(jobs, jobId) = "processing"
       THEN /\ jobs' = setStatus(jobs, jobId, "failed")
            /\ runs' = markHalt(jobId)
       ELSE UNCHANGED <<jobs, runs>>
    /\ UNCHANGED <<processing, currentJobId, dbJobs, dbProfiles, resumes, finished,
                   env, retry, classified, progress>>

stopJob(jobId) ==
    /\ IF jobId \in DOMAIN jobs
       THEN /\ jobs' = setStatus(jobs, jobId, "failed")
            /\ runs' = markHalt(jobId)
       ELSE UNCHANGED <<jobs, runs>>
    /\ UNCHANGED <<processing, currentJobId, dbJobs, dbProfiles, resumes, finished,
                   env, retry, classified, progress>>

(* resumeJob, lines 66-74 *)
resumeJobAlsoFailed(jobId) ==
    /\ IF jobId \in DOMAIN jobs /\ statusOf(jobs, jobId) \in {"paused", "failed"}
       THEN /\ resumes < MaxResumes
            /\ resumes' = resumes + 1
            /\ LET js == setStatus(jobs, jobId, "pending") IN
               IF ~processing
               THEN Started(startProcessing(js, dbJobs, processing))
               ELSE /\ jobs' = js
                    /\ UNCHANGED <<dbJobs, processing, runs>>
       ELSE UNCHANGED <<jobs, dbJobs, processing, runs, resumes>>
    /\ UNCHANGED <<currentJobId, dbProfiles, finished, env, retry, classified, progress>>

resumeJobNewLoop(jobId) ==
    /\ IF jobId \in DOMAIN jobs /\ statusOf(jobs, jobId) = "paused"
       THEN /\ resumes < MaxResumes
            /\ resumes' = resumes + 1
            /\ Started(nextIteration(setStatus(jobs, jobId, "pending"), dbJobs))
       ELSE UNCHANGED <<jobs, dbJobs, processing, runs, resumes>>
    /\ UNCHANGED <<currentJobId, dbProfiles, finished, env, retry, classified, progress>>

resumeJob(jobId) ==
    /\ IF jobId \in DOMAIN jobs /\ statusOf(jobs, jobId) = "paused"
       THEN /\ resumes < MaxResumes
            /\ resumes' = resumes + 1
            /\ LET js == setStatus(jobs, jobId, "pending") IN
               IF ~processing
               THEN Started(startProcessing(js, dbJobs, processing))
               ELSE /\ jobs' = js
                    /\ UNCHANGED <<dbJobs, processing, runs>>
       ELSE UNCHANGED <<jobs, dbJobs, processing, runs, resumes>>
    /\ UNCHANGED <<currentJobId, dbProfiles, finished, env, retry, classified, progress>>

(* storage.createJob as POST /api/files/upload calls it,                    *)
(* src/server/routes.ts lines 398-404: a job row for an uploaded file       *)
CreateJob ==
    /\ Cardinality(DOMAIN dbJobs) < env.maxJobs
    /\ \E filePath \in env.files :
          dbJobs' = createJob(dbJobs, filePath, Len(parseLinkedInUrls(filePath)))
    /\ UNCHANGED <<jobs, processing, currentJobId, runs, dbProfiles, resumes,
                   finished, env, retry, classified, progress>>

JobIds == 1..(MaxJobs + 1)

(* addJob as POST /api/jobs/start calls it, src/server/routes.ts lines      *)
(* 492-497: for a job row, with its file                                    *)
AddJob ==
    /\ currentJobId <= env.maxJobs
    /\ \E jobId \in DOMAIN dbJobs, batchSize \in env.batchSizes :
          addJob([jobId |-> jobId, filePath |-> dbJobs[jobId].filePath,
                  batchSize |-> batchSize])

PauseJob == env.control /\ \E jobId \in JobIds : pauseJob(jobId)
StopJob == env.control /\ \E jobId \in JobIds : stopJob(jobId)
ResumeJob == env.control /\ \E jobId \in JobIds : resumeJob(jobId)
Parse == \E n \in 1..Len(runs) : ProcessJobParse(n)
Batch == \E n \in 1..Len(runs) : ProcessJobBatch(n)
Item == \E n \in 1..Len(runs) : ProcessJobItem(n)
Compile == \E n \in 1..Len(runs) : ProcessJobCompile(n)

(* The provider of lines 276-323: a profile, a simulated error that is      *)
(* retried (its kind is unknown) or one that is not                         *)
ProviderOutcomes ==
    {OK, "Simulated LinkedIn API error: rate_limit",
     "Simulated LinkedIn API error: access_restricted"}

AllFaults == {"parse", "noToken", "try", "catch", "progress", "compile", "update"}

(* No stand-alone call of categorizeError *)
NoValue == [error |-> NonError, errorType |-> "none"]

(* No stand-alone progress update *)
NoWrite == [processingRate |-> "", estimatedCompletion |-> "none"]

NoProgress == [processed |-> 0, total |-> 0, elapsed |-> 0, written |-> NoWrite]

(* No stand-alone call of the executor *)
NoCall == [frame |-> NoFrame, maxRetries |-> 0, work |-> << >>]

(* The queue and the storage after construction, lines 23-32 *)
Construction ==
    /\ jobs = << >>
    /\ processing = FALSE
    /\ currentJobId = 1
    /\ runs = << >>
    /\ dbJobs = << >>
    /\ dbProfiles = EmptyBag
    /\ resumes = 0
    /\ finished = << >>

(* One job of up to three items, in batches of one or two *)
Init ==
    /\ Construction
    /\ retry = NoCall
    /\ classified = NoValue
    /\ progress = NoProgress
    /\ env = [provider |-> [u \in Urls |-> ProviderOutcomes], faults |-> AllFaults,
              control |-> TRUE, files |-> {"empty.xlsx", "three.xlsx"},
              batchSizes |-> {1, 2}, maxJobs |-> 1]

(* Several jobs of up to two items, one at a time; an item succeeds or is   *)
(* restricted, and the storage can fail where a run begins and in the      *)
(* catch block                                                             *)
InitQueue ==
    /\ Construction
    /\ retry = NoCall
    /\ classified = NoValue
    /\ progress = NoProgress
    /\ env = [provider |-> [u \in Urls |->
                               {OK, "Simulated LinkedIn API error: access_restricted"}],
              faults |-> {"parse", "update"},
              control |-> TRUE, files |-> {"empty.xlsx", "two.xlsx"},
              batchSizes |-> {1}, maxJobs |-> MaxJobs]

Next ==
    \/ CreateJob
    \/ AddJob
    \/ PauseJob
    \/ StopJob
    \/ ResumeJob
    \/ Parse
    \/ Batch
    \/ Item
    \/ Compile

Spec == Init /\ [][Next]_vars

SpecQueue == InitQueue /\ [][Next]_vars

(* The awaited calls come back and the event loop runs what waits for them: *)
(* a run that can take its next step takes it                              *)
Fairness ==
    /\ WF_vars(Parse)
    /\ WF_vars(Batch)
    /\ WF_vars(Item)
    /\ WF_vars(Compile)

SpecQueueFair == SpecQueue /\ Fairness

-----------------------------------------------------------------------------
(* One job in batches of two, left to run, of five items or of the same     *)
(* item two or three times; each item either always succeeds, always     *)
(* fails with "rate limit exceeded" or is always restricted                *)

InitE2E ==
    /\ Construction
    /\ retry = NoCall
    /\ classified = NoValue
    /\ progress = NoProgress
    /\ \E provider \in [Urls -> {{OK}, {"rate limit exceeded"},
                                  {"Simulated LinkedIn API error: access_restricted"}}] :
          env = [provider |-> provider, faults |-> {}, control |-> FALSE,
                 files |-> {"five.xlsx", "dup.xlsx", "triple.xlsx"}, batchSizes |-> {2},
                 maxJobs |-> 1]

NextE2E == CreateJob \/ AddJob \/ Parse \/ Batch \/ Item \/ Compile

SpecE2E == InitE2E /\ [][NextE2E]_vars

-----------------------------------------------------------------------------
(* One job of three items in batches of one or two, left to run; an        *)
(* attempt returns a profile or fails with a message of any kind, and no   *)
(* storage call fails                                                      *)

(* A message of each kind, and one of the simulated provider *)
FailureMessages ==
    { "rate limit exceeded", "Profile Not Found", "403 Forbidden",
      "CAPTCHA challenge", "socket hang up",
      "Simulated LinkedIn API error: profile_not_found" }

InitProvider ==
    /\ Construction
    /\ retry = NoCall
    /\ classified = NoValue
    /\ progress = NoProgress
    /\ env = [provider |-> [u \in Urls |-> {OK} \cup FailureMessages],
              faults |-> {}, control |-> FALSE, files |-> {"three.xlsx"},
              batchSizes |-> {1, 2}, maxJobs |-> 1]

SpecProvider == InitProvider /\ [][NextE2E]_vars

-----------------------------------------------------------------------------
(* The job routes of src/server/routes.ts in front of the queue. A handler  *)
(* writes the jobs table and then calls the queue; the two are one step     *)
(* here, the order in which no step of the loop falls between them. The     *)
(* routes pass the id of the job row to pauseJob, stopJob and resumeJob.    *)

(* POST /api/files/upload, lines 361-433: parse the file, create the job    *)
(* row and a profile row for each URL the job does not have yet; a file     *)
(* without URLs is refused (lines 382-386)                                  *)
Upload ==
    /\ Cardinality(DOMAIN dbJobs) < env.maxJobs
    /\ \E filePath \in env.files :
          LET linkedinUrls == parseLinkedInUrls(filePath)
              id == Cardinality(DOMAIN dbJobs) + 1
          IN  /\ linkedinUrls # << >>
              /\ dbJobs' = createJob(dbJobs, filePath, Len(linkedinUrls))
              /\ dbProfiles' = createProfilesDedup(dbProfiles, id, linkedinUrls)
    /\ UNCHANGED <<jobs, processing, currentJobId, runs, resumes, finished, env,
                   retry, classified, progress>>

(* POST /api/jobs/start, lines 470-504: no check of the row's status *)
RouteStart ==
    /\ currentJobId <= env.maxJobs
    /\ \E fileId \in DOMAIN dbJobs, batchSize \in env.batchSizes :
          LET db == updateJobStatus(dbJobs, fileId, "processing", NoData)
              data == [jobId |-> fileId, filePath |-> dbJobs[fileId].filePath,
                       batchSize |-> batchSize]
              jobId == currentJobId
              job == [data |-> data, status |-> "pending", retryCount |-> 0]
              js == [n \in DOMAIN jobs \cup {jobId} |->
                        IF n = jobId THEN job ELSE jobs[n]]
          IN  /\ currentJobId' = currentJobId + 1
              /\ finished' = [n \in DOMAIN finished \cup {jobId} |->
                                  IF n = jobId THEN {} ELSE finished[n]]
              /\ IF ~processing
                 THEN Started(startProcessing(js, db, processing))
                 ELSE /\ jobs' = js
                      /\ dbJobs' = db
                      /\ UNCHANGED <<processing, runs>>
    /\ UNCHANGED <<dbProfiles, resumes, env, retry, classified, progress>>

(* POST /api/jobs/:id/pause, lines 574-584 *)
RoutePause ==
    /\ \E id \in JobIds :
          /\ dbJobs' = updateJobStatus(dbJobs, id, "paused", NoData)
          /\ IF id \in DOMAIN jobs /\ statusOf(jobs, id) = "processing"
             THEN /\ jobs' = setStatus(jobs, id, "paused")
                  /\ runs' = markHalt(id)
             ELSE UNCHANGED <<jobs, runs>>
    /\ UNCHANGED <<processing, currentJobId, dbProfiles, resumes, finished, env,
                   retry, classified, progress>>

(* POST /api/jobs/:id/stop and /cancel, lines 586-608 *)
RouteStop ==
    /\ \E id \in JobIds :
          /\ dbJobs' = updateJobStatus(dbJobs, id, "failed", NoData)
          /\ IF id \in DOMAIN jobs
             THEN /\ jobs' = setStatus(jobs, id, "failed")
                  /\ runs' = markHalt(id)
             ELSE UNCHANGED <<jobs, runs>>
    /\ UNCHANGED <<processing, currentJobId, dbProfiles, resumes, finished, env,
                   retry, classified, progress>>

(* POST /api/jobs/:id/resume, lines 610-620 *)
RouteResume ==
    /\ \E id \in JobIds :
          LET db == updateJobStatus(dbJobs, id, "processing", NoData) IN
          IF id \in DOMAIN jobs /\ statusOf(jobs, id) = "paused"
          THEN /\ resumes < MaxResumes
               /\ resumes' = resumes + 1
               /\ LET js == setStatus(jobs, id, "pending") IN
                  IF ~processing
                  THEN Started(startProcessing(js, db, processing))
                  ELSE /\ jobs' = js
                       /\ dbJobs' = db
                       /\ UNCHANGED <<processing, runs>>
          ELSE /\ dbJobs' = db
               /\ UNCHANGED <<jobs, processing, runs, resumes>>
    /\ UNCHANGED <<currentJobId, dbProfiles, finished, env, retry, classified,
                   progress>>

(* Up to MaxJobs uploads of a list of two, started in any order; every      *)
(* item succeeds and no storage call fails                                  *)
InitRoutes ==
    /\ Construction
    /\ retry = NoCall
    /\ classified = NoValue
    /\ progress = NoProgress
    /\ env = [provider |-> [u \in Urls |-> {OK}],
              faults |-> {}, control |-> TRUE, files |-> {"two.xlsx"},
              batchSizes |-> {1}, maxJobs |-> MaxJobs]

NextRoutes ==
    \/ Upload
    \/ RouteStart
    \/ RoutePause
    \/ RouteStop
    \/ RouteResume
    \/ Parse
    \/ Batch
    \/ Item
    \/ Compile

SpecRoutes == InitRoutes /\ [][NextRoutes]_vars

-----------------------------------------------------------------------------
(* extractProfileWithRetry on its own: a call with maxRetries, the n-th     *)
(* attempt of which ends as work[n] says                                    *)

(* What an attempt can end with: a profile, or an error of each kind; the   *)
(* simulated provider's messages are among them                            *)
WorkOutcomes ==
    {OK, "Simulated LinkedIn API error: rate_limit",
     "Simulated LinkedIn API error: access_restricted",
     "Request failed with status code 404", "rate limit exceeded",
     "CAPTCHA challenge"}

InitRetry ==
    /\ Construction
    /\ env = [provider |-> [u \in Urls |-> {OK}], faults |-> {}, control |-> FALSE,
              files |-> {}, batchSizes |-> {}, maxJobs |-> 0]
    /\ classified = NoValue
    /\ progress = NoProgress
    /\ \E maxRetries \in 0..MaxRetriesArg, work \in [1..MaxRetriesArg -> WorkOutcomes] :
          retry = [frame |-> NoFrame, maxRetries |-> maxRetries, work |-> work]

(* line 153, with any maxRetries *)
RetryCall ==
    /\ retry.frame.pc = "none"
    /\ retry' = [retry EXCEPT !.frame = extractProfileWithRetry(retry.maxRetries)]
    /\ UNCHANGED <<jobs, processing, currentJobId, runs, dbJobs, dbProfiles, resumes,
                   finished, env, classified, progress>>

(* lines 275-336: one turn of the while loop up to its return, its throw or *)
(* the await of line 339                                                    *)
RetryAttempt ==
    /\ retry.frame.pc = "attempt"
    /\ retry' = [retry EXCEPT
                    !.frame = attempt(@, retry.work[retry.frame.calls + 1])]
    /\ UNCHANGED <<jobs, processing, currentJobId, runs, dbJobs, dbProfiles, resumes,
                   finished, env, classified, progress>>

(* lines 339-340: the delay is over *)
RetryBackoff ==
    /\ retry.frame.pc = "backoff"
    /\ retry' = [retry EXCEPT !.frame = backoff(@)]
    /\ UNCHANGED <<jobs, processing, currentJobId, runs, dbJobs, dbProfiles, resumes,
                   finished, env, classified, progress>>

NextRetry == RetryCall \/ RetryAttempt \/ RetryBackoff

SpecRetry == InitRetry /\ [][NextRetry]_vars

-----------------------------------------------------------------------------
(* The progress figures, lines 195-207, and the tracker's formulas          *)
(* (src/server/services/job-simulator.ts lines 146-155). Times are in ms    *)
(* since startTime (line 137); a quotient processed / elapsed is kept as    *)
(* the pair, in profiles per ms.                                            *)

Null == [kind |-> "null", at |-> 0]
InvalidDate == [kind |-> "invalid", at |-> 0]
DateAt(t) == [kind |-> "date", at |-> t]

(* Number.prototype.toFixed(1) of 60000 * profiles / ms: one decimal,      *)
(* rounded half up; a division by 0 gives Infinity (profiles > 0)           *)
toFixed1(profiles, ms) ==
    IF ms = 0 THEN (IF profiles = 0 THEN "NaN" ELSE "Infinity")
    ELSE LET tenths == (2 * 600000 * profiles + ms) \div (2 * ms) IN
         ToString(tenths \div 10) \o "." \o ToString(tenths % 10)

digit(c) ==
    CASE c = "0" -> 0 [] c = "1" -> 1 [] c = "2" -> 2 [] c = "3" -> 3 [] c = "4" -> 4
      [] c = "5" -> 5 [] c = "6" -> 6 [] c = "7" -> 7 [] c = "8" -> 8 [] c = "9" -> 9

(* parseFloat of a text that toFixed(1) gives: the number in tenths, or     *)
(* Infinity                                                                 *)
RECURSIVE tenthsOf(_, _)
tenthsOf(text, acc) ==
    IF text = "" THEN acc
    ELSE LET c == SubSeq(text, 1, 1)
             rest == SubSeq(text, 2, Len(text))
         IN  IF c = "." THEN tenthsOf(rest, acc) ELSE tenthsOf(rest, 10 * acc + digit(c))

parseFloat(text) ==
    IF text = "Infinity" THEN [infinite |-> TRUE, nan |-> FALSE, tenths |-> 0]
    ELSE IF text = "NaN" THEN [infinite |-> FALSE, nan |-> TRUE, tenths |-> 0]
    ELSE [infinite |-> FALSE, nan |-> FALSE, tenths |-> tenthsOf(text, 0)]

(* lines 195-207: what processJob writes after an item, now being elapsed   *)
(* ms after startTime. new Date(x) cuts x to whole ms; new Date(Infinity)   *)
(* and new Date(NaN) are Invalid Date.                                      *)
writeProgress(processed, total, elapsed) ==
    LET rate == toFixed1(processed, elapsed)
        remaining == total - processed
        r == parseFloat(rate)
        eta == IF remaining > 0
               THEN IF r.infinite THEN DateAt(elapsed)
                    ELSE IF r.nan \/ r.tenths = 0 THEN InvalidDate
                    ELSE DateAt(elapsed + (remaining * 600000) \div r.tenths)
               ELSE Null
    IN  [processingRate |-> rate \o " profiles/min", estimatedCompletion |-> eta]

(* JobSimulator.calculateProcessingRate, job-simulator.ts lines 146-149 *)
calculateProcessingRate(processed, elapsed) ==
    IF elapsed > 0 THEN [profiles |-> processed, ms |-> elapsed]
    ELSE [profiles |-> 0, ms |-> 1]

(* JobSimulator.calculateETA, job-simulator.ts lines 151-155 *)
calculateETA(remaining, rate, now) ==
    IF remaining <= 0 \/ rate.profiles <= 0 THEN Null
    ELSE DateAt(now + (remaining * rate.ms) \div rate.profiles)

(* The least time an item takes: the delay of line 277, and the delay of    *)
(* line 210 after each earlier item                                         *)
API_DELAY == 1500
RATE_LIMIT_DELAY == 2000

(* Times after startTime at which an item may have been recorded *)
ElapsedValues ==
    {1500, 2300, 4000, 6000, 7000, 10000, 30000, 60000, 90000, 600000, 1260000}

InitProgress ==
    /\ Construction
    /\ retry = NoCall
    /\ classified = NoValue
    /\ env = [provider |-> [u \in Urls |-> {OK}], faults |-> {}, control |-> FALSE,
              files |-> {}, batchSizes |-> {}, maxJobs |-> 0]
    /\ \E total \in 1..MaxTotal, processed \in 1..MaxTotal, elapsed \in ElapsedValues :
          /\ processed <= total
          /\ elapsed >= API_DELAY * processed + RATE_LIMIT_DELAY * (processed - 1)
          /\ progress = [processed |-> processed, total |-> total,
                         elapsed |-> elapsed, written |-> NoWrite]

(* lines 193-207, processed being the counter after line 193 *)
WriteProgress ==
    /\ progress.written = NoWrite
    /\ progress.processed > 0
    /\ progress' = [progress EXCEPT
                       !.written = writeProgress(progress.processed, progress.total,
                                                 progress.elapsed)]
    /\ UNCHANGED <<jobs, processing, currentJobId, runs, dbJobs, dbProfiles, resumes,
                   finished, env, retry, classified>>

NextProgress == WriteProgress

SpecProgress == InitProgress /\ [][NextProgress]_vars

-----------------------------------------------------------------------------
(* categorizeError on its own: a thrown value, then its kind *)

(* The texts categorizeError looks for, and texts that come close *)
Tokens ==
    {"captcha", "challenge", "not found", "404", "restricted", "403", "unauthorized",
     "rate limit", "429"}

NearTokens == {"not_found", "rate_limit", "timeout", "40 4", ""}

(* The spellings of a text in messages *)
Spellings(t) ==
    CASE t = "captcha"      -> {"captcha", "CAPTCHA", "Captcha"}
      [] t = "challenge"    -> {"challenge", "CHALLENGE", "Challenge"}
      [] t = "not found"    -> {"not found", "NOT FOUND", "Not Found"}
      [] t = "restricted"   -> {"restricted", "RESTRICTED", "Restricted"}
      [] t = "unauthorized" -> {"unauthorized", "UNAUTHORIZED", "Unauthorized"}
      [] t = "rate limit"   -> {"rate limit", "RATE LIMIT", "Rate Limit"}
      [] OTHER              -> {t}

(* Messages with one text or two, and a value that is not an Error *)
ThrownValues ==
    {Err("Error: " \o w) : w \in UNION {Spellings(t) : t \in Tokens \cup NearTokens}}
    \cup {Err(a \o " / " \o b) : a \in Tokens, b \in Tokens \cup NearTokens}
    \cup SimulatedThrows
    \cup ProviderThrows
    \cup {NonError}

InitClassify ==
    /\ Construction
    /\ retry = NoCall
    /\ env = [provider |-> [u \in Urls |-> {OK}], faults |-> {}, control |-> FALSE,
              files |-> {}, batchSizes |-> {}, maxJobs |-> 0]
    /\ \E error \in ThrownValues : classified = [error |-> error, errorType |-> "none"]
    /\ progress = NoProgress

(* lines 173 and 325: categorizeError(error) *)
Categorize ==
    /\ classified.errorType = "none"
    /\ classified' = [classified EXCEPT !.errorType = categorizeError(classified.error)]
    /\ UNCHANGED <<jobs, processing, currentJobId, runs, dbJobs, dbProfiles, resumes,
                   finished, env, retry, progress>>

NextClassify == Categorize

SpecClassify == InitClassify /\ [][NextClassify]_vars

-----------------------------------------------------------------------------
(* Properties *)

InProcessJob(f) == f.pc \in {"parse", "batch", "item", "compile"}

(* C1: whatever the interleaving of addJob, pauseJob, resumeJob and stopJob  *)
(* with the steps of the loop, at most one processing loop is active and at  *)
(* most one job is inside processJob; a loop is active only under the flag.  *)
OneLoop ==
    /\ Len(runs) <= 1
    /\ Cardinality({n \in 1..Len(runs) : InProcessJob(runs[n])}) <= 1
    /\ runs # << >> => processing

(* A resumed job is being processed again while another job waits its turn *)
OneLoopBusy ==
    /\ Len(runs) = 1
    /\ resumes > 0
    /\ runs[1].pc = "item"
    /\ \E id \in DOMAIN jobs : id # runs[1].job /\ jobs[id].status = "pending"

(* C2: every counter snapshot in the jobs table has                         *)
(* processedProfiles = successfulProfiles + failedProfiles, whatever the    *)
(* number of items and their outcomes.                                      *)
CountersAddUp ==
    \A id \in DOMAIN dbJobs :
        dbJobs[id].processedProfiles
            = dbJobs[id].successfulProfiles + dbJobs[id].failedProfiles

(* A snapshot of three items, some successful and some failed *)
CountersMixed ==
    \E id \in DOMAIN dbJobs :
        /\ dbJobs[id].processedProfiles = 3
        /\ dbJobs[id].successfulProfiles > 0
        /\ dbJobs[id].failedProfiles > 0

Terminal == {"completed", "failed"}

(* C3: once the status of a job is completed or failed, in the registry or  *)
(* in the jobs table, no later step changes it to another status (stopJob's *)
(* failed included); the record may go, its status may not change.          *)
TerminalStatusStays ==
    [][/\ \A id \in DOMAIN jobs :
             jobs[id].status \in Terminal /\ id \in DOMAIN jobs'
                 => jobs'[id].status = jobs[id].status
       /\ \A id \in DOMAIN dbJobs :
             dbJobs[id].status \in Terminal => dbJobs'[id].status = dbJobs[id].status]_vars

Halted(f) == f.limit >= 0

PendingRows(jobId, url) ==
    {p \in BagToSet(dbProfiles) :
        p.jobId = jobId /\ p.linkedinUrl = url /\ p.status = "pending"}

(* C4: after pauseJob or stopJob reaches a job while batch k is in progress, *)
(* the run attempts only items of batch k: the item in hand is below the    *)
(* first index of batch k+1, the run comes to the next batch check with the *)
(* last item of batch k attempted, at most batchSize items are handed over  *)
(* after the pause or stop, and every item of batch k+1 or later still has  *)
(* a pending profile row.                                                   *)
HaltAtNextBatch ==
    \A n \in 1..Len(runs) :
        LET f == runs[n] IN
        Halted(f) /\ f.pc \in {"batch", "item"} =>
            /\ f.pc = "item" => f.i <= f.k /\ f.k < f.limit
            /\ f.pc = "batch" =>
                  /\ f.started # << >>
                  /\ f.started[Len(f.started)] = f.limit - 1
            /\ f.limit <= f.i + f.data.batchSize
            /\ f.after <= f.data.batchSize
            /\ \A j \in (f.limit + 1)..Len(f.urls) :
                   PendingRows(f.data.jobId, f.urls[j]) # {}

(* The job was paused or stopped during the first item of a batch of two;   *)
(* the second item of the batch has been attempted and an item of the next  *)
(* batch is left.                                                           *)
HaltedInBatch ==
    \E n \in 1..Len(runs) :
        LET f == runs[n] IN
        /\ Halted(f) /\ f.pc = "batch"
        /\ f.after = 1
        /\ f.limit < Len(f.urls)
        /\ statusOf(jobs, f.job) \in {"paused", "failed"}

(* C5: after a pause and resumeJob no item that reached success or failed   *)
(* before the pause is attempted again: the item in hand is not among the   *)
(* finished items of the job.                                               *)
NoItemAgain ==
    \A n \in 1..Len(runs) :
        runs[n].pc = "item" => runs[n].k \notin finished[runs[n].job]

(* C6: when a run that was never paused or stopped reports its job          *)
(* completed (line 218), every item of the list has been handed to the      *)
(* executor exactly once, in order.                                         *)
EveryItemOnce ==
    \A n \in 1..Len(runs) :
        LET f == runs[n] IN
        f.pc = "compile" /\ ~Halted(f) =>
            /\ statusOf(jobs, f.job) = "completed"
            /\ f.started = [j \in 1..Len(f.urls) |-> j - 1]

(* A run of three items in batches of two, never paused or stopped, has     *)
(* reported its job completed                                               *)
RunCompleted ==
    \E n \in 1..Len(runs) :
        LET f == runs[n] IN
        /\ f.pc = "compile" /\ ~Halted(f)
        /\ Len(f.urls) = 3 /\ f.data.batchSize = 2
        /\ resumes = 0

(* C7: once the run of a job, if any, has returned, the registry holds no   *)
(* record of the job with status completed or failed, whether the job       *)
(* completed, failed by an error or was failed by stopJob.                  *)
NoTerminalRecord ==
    \A id \in DOMAIN jobs :
        (\A n \in 1..Len(runs) : runs[n].job # id) =>
            jobs[id].status \notin Terminal

Ended(f) == f.pc \in {"returned", "thrown"}

NeverRetried == {NOT_FOUND, ACCESS_RESTRICTED}

(* C9: for every maxRetries >= 1, when the unit of work fails with an error *)
(* of kind not_found or access_restricted the executor has invoked it once, *)
(* throws that error and has taken no backoff delay.                        *)
TerminalKindOnce ==
    LET f == retry.frame
        outcome == retry.work[1]
    IN  (/\ retry.maxRetries >= 1
         /\ f.calls >= 1
         /\ outcome # OK
         /\ categorizeError(Err(outcome)) \in NeverRetried)
        => /\ f.pc = "thrown"
           /\ f.calls = 1
           /\ f.result = outcome
           /\ f.waited = 0

(* A call with maxRetries = 3 has thrown the 404 of its one attempt *)
NotFoundThrown ==
    /\ retry.maxRetries = 3
    /\ retry.work[1] = "Request failed with status code 404"
    /\ retry.frame.pc = "thrown"
    /\ retry.frame.calls = 1

Retryable(outcome) ==
    outcome # OK /\ categorizeError(Err(outcome)) \in {CAPTCHA, RATE_LIMIT, UNKNOWN}

(* C10: a call with maxRetries >= 1 whose attempts all fail with a          *)
(* retryable kind ends after exactly maxRetries invocations by throwing the *)
(* error of the last one; a call whose n-th attempt is the first to succeed *)
(* returns after exactly n invocations.                                     *)
RetriesExhaustedOrReturned ==
    LET f == retry.frame
        m == retry.maxRetries
    IN  m >= 1 /\ Ended(f) =>
           /\ (\A n \in 1..m : Retryable(retry.work[n]))
                  => f.pc = "thrown" /\ f.calls = m /\ f.result = retry.work[m]
           /\ \A n \in 1..m :
                  (retry.work[n] = OK /\ \A o \in 1..(n - 1) : Retryable(retry.work[o]))
                      => f.pc = "returned" /\ f.calls = n

(* Three attempts of three have failed with different retryable errors and  *)
(* the executor has thrown the third                                       *)
RetriesExhausted ==
    /\ retry.maxRetries = 3
    /\ \A n \in 1..3 : Retryable(retry.work[n])
    /\ retry.work[3] # retry.work[2]
    /\ retry.frame.pc = "thrown"
    /\ retry.frame.calls = 3

(* The items at index 1 and 3 always fail with "rate limit exceeded", the   *)
(* others always succeed                                                    *)
Scenario ==
    env.provider = [u \in Urls |-> IF u \in {"in/b", "in/d"}
                                   THEN {"rate limit exceeded"} ELSE {OK}]

(* C8: in the scenario, with 5 items and batch size 2, once the job is      *)
(* completed successfulProfiles = 3, failedProfiles = 2 and the rows of     *)
(* both failing items have errorType rate_limit and retryCount 3.           *)
ScenarioResult ==
    (/\ Scenario
     /\ 1 \in DOMAIN dbJobs
     /\ dbJobs[1].filePath = "five.xlsx"
     /\ dbJobs[1].status = "completed") =>
        /\ dbJobs[1].successfulProfiles = 3
        /\ dbJobs[1].failedProfiles = 2
        /\ \A p \in BagToSet(dbProfiles) :
               p.linkedinUrl \in {"in/b", "in/d"} =>
                   p.errorType = RATE_LIMIT /\ p.retryCount = 3

(* C11: the backoff taken after the k-th failed retryable attempt is        *)
(* INITIAL_DELAY * 2^(k-1), and a call with maxRetries = 3 whose unit of    *)
(* work fails twice and then succeeds returns the result after backoffs of  *)
(* at least INITIAL_DELAY + 2 * INITIAL_DELAY in all.                       *)
BackoffDoubles ==
    LET f == retry.frame IN
    /\ f.pc = "backoff" => f.delay = INITIAL_DELAY * 2 ^ (f.calls - 1)
    /\ f.pc = "attempt" => f.waited = INITIAL_DELAY * (2 ^ f.calls - 1)
    /\ (/\ retry.maxRetries = 3
        /\ Retryable(retry.work[1]) /\ Retryable(retry.work[2])
        /\ retry.work[3] = OK
        /\ Ended(f))
       => f.pc = "returned" /\ f.result = OK
          /\ f.waited >= INITIAL_DELAY + 2 * INITIAL_DELAY

(* Two failures, two backoffs of 1000 and 2000, then the profile *)
ReturnedAfterTwoBackoffs ==
    /\ retry.maxRetries = 3
    /\ Retryable(retry.work[1]) /\ Retryable(retry.work[2])
    /\ retry.work[3] = OK
    /\ retry.frame.pc = "returned"
    /\ retry.frame.calls = 3
    /\ retry.frame.waited = 3000

(* Case-insensitive substring match, character by character *)
Mentions(message, text) ==
    \E i \in 1..(Len(message) - Len(text) + 1) :
        \A j \in 1..Len(text) :
            lowerChar(SubSeq(message, i + j - 1, i + j - 1)) = SubSeq(text, j, j)

(* C12: categorizeError gives captcha for a message that mentions "captcha" *)
(* or "challenge"; else not_found for "not found" or "404"; else            *)
(* access_restricted for "restricted", "403" or "unauthorized"; else        *)
(* rate_limit for "rate limit" or "429"; else, and for a value that is not  *)
(* an Error, unknown. The result is one of the five kinds.                  *)
Classification ==
    classified.errorType # "none" =>
        LET e == classified.error
            m == e.message
        IN  /\ classified.errorType \in ErrorKinds
            /\ classified.errorType =
                 IF ~e.isError THEN UNKNOWN
                 ELSE IF Mentions(m, "captcha") \/ Mentions(m, "challenge") THEN CAPTCHA
                 ELSE IF Mentions(m, "not found") \/ Mentions(m, "404") THEN NOT_FOUND
                 ELSE IF Mentions(m, "restricted") \/ Mentions(m, "403")
                         \/ Mentions(m, "unauthorized") THEN ACCESS_RESTRICTED
                 ELSE IF Mentions(m, "rate limit") \/ Mentions(m, "429") THEN RATE_LIMIT
                 ELSE UNKNOWN

(* A message that mentions "429" and then "not found" has the kind of the   *)
(* text that is looked for first                                           *)
ClassifiedNotFound ==
    /\ classified.error = Err("429 / not found")
    /\ classified.errorType = NOT_FOUND

RowsAtLeast(profs, c) ==
    {p \in BagToSet(profs) : p.retryCount >= c}

Copies(profs, rows) ==
    BagCardinality([p \in rows |-> CopiesIn(p, profs)])

(* C13: within a run the retryCount of no profile row decreases (for every  *)
(* count c the rows with retryCount >= c do not get fewer), and a row with  *)
(* errorType not_found or access_restricted has retryCount <= 1.            *)
RetryCountGrowsToOne ==
    [][/\ \A c \in 1..(2 * RETRY_LIMIT) :
             Copies(dbProfiles, RowsAtLeast(dbProfiles, c))
                 <= Copies(dbProfiles', RowsAtLeast(dbProfiles', c))
       /\ \A p \in BagToSet(dbProfiles') :
             p.errorType \in NeverRetried => p.retryCount <= 1]_vars

(* The locals of the activations, their history left out *)
Locals(rs) ==
    [n \in 1..Len(rs) |-> [rs[n] EXCEPT !.limit = -1, !.started = << >>, !.after = 0]]

(* C14: pauseJob on a job that is paused, pending, failed or not in the     *)
(* registry changes nothing; on a processing job it sets paused and nothing *)
(* else, so that a second call finds the job paused and changes nothing;    *)
(* it can be called in every state.                                         *)
PauseIdempotent ==
    [][\A jobId \in JobIds :
          /\ ENABLED pauseJob(jobId)
          /\ pauseJob(jobId) =>
                IF statusOf(jobs, jobId) = "processing"
                THEN /\ jobs' = [jobs EXCEPT ![jobId].status = "paused"]
                     /\ Locals(runs') = Locals(runs)
                     /\ UNCHANGED <<processing, currentJobId, dbJobs, dbProfiles>>
                     /\ statusOf(jobs', jobId) # "processing"
                ELSE UNCHANGED <<jobs, processing, currentJobId, runs, dbJobs,
                                 dbProfiles>>]_vars

(* One job has been paused in its run while a second one is waiting *)
PausedAndPending ==
    /\ \E n \in 1..Len(runs) :
          Halted(runs[n]) /\ statusOf(jobs, runs[n].job) = "paused"
    /\ \E id \in DOMAIN jobs : jobs[id].status = "pending"

(* The step starts a run of the job id, or a batch of it *)
StartsRunOrBatch(id) ==
    \E n \in 1..Len(runs') :
        /\ runs'[n].job = id
        /\ \/ runs'[n].pc = "parse" /\ (n > Len(runs) \/ runs[n].pc # "parse")
           \/ /\ runs'[n].pc = "item"
              /\ n <= Len(runs) /\ runs[n].pc \in {"parse", "batch"}

(* C15: stopJob on a job in the registry, whatever its status, leaves it    *)
(* failed; and while the record of a job is failed, or completed or gone    *)
(* after it was failed, no step starts a run or a batch of the job.         *)
StoppedForGood ==
    /\ [](\A id \in DOMAIN jobs :
            /\ ENABLED stopJob(id)
            /\ ~ENABLED (stopJob(id) /\ statusOf(jobs', id) # "failed"))
    /\ [][\A id \in DOMAIN jobs :
            jobs[id].status \in Terminal =>
                /\ statusOf(jobs', id) \in Terminal \cup {"absent"}
                /\ ~StartsRunOrBatch(id)]_vars
    /\ [][\A id \in 1..(currentJobId - 1) :
            id \notin DOMAIN jobs =>
                id \notin DOMAIN jobs' /\ ~StartsRunOrBatch(id)]_vars

(* A waiting job was stopped, and the loop has since run another job to its *)
(* end and gone idle                                                       *)
StoppedWhileWaiting ==
    /\ ~processing
    /\ currentJobId = 3
    /\ DOMAIN jobs = {2}
    /\ jobs[2].status = "failed"
    /\ finished[2] = {}

(* C16: resumeJob changes the state only for a paused job. With the loop    *)
(* busy the job becomes pending and nothing else changes; with the loop     *)
(* idle the loop is started and takes the job, the only pending one, at     *)
(* once. For a job in another status or an unknown id nothing changes.      *)
ResumeOnlyPaused ==
    [][\A jobId \in JobIds :
          resumeJob(jobId) =>
              IF statusOf(jobs, jobId) = "paused"
              THEN /\ UNCHANGED <<currentJobId, dbProfiles>>
                   /\ \A id \in DOMAIN jobs \ {jobId} : jobs'[id] = jobs[id]
                   /\ DOMAIN jobs' = DOMAIN jobs
                   /\ jobs'[jobId].data = jobs[jobId].data
                   /\ IF processing
                      THEN /\ jobs'[jobId].status = "pending"
                           /\ UNCHANGED <<processing, runs, dbJobs>>
                      ELSE /\ processing'
                           /\ jobs'[jobId].status = "processing"
                           /\ Len(runs') = Len(runs) + 1
                           /\ runs'[Len(runs')].job = jobId
                           /\ runs'[Len(runs')].pc = "parse"
              ELSE UNCHANGED <<jobs, processing, currentJobId, runs, dbJobs,
                               dbProfiles>>]_vars

(* A paused job whose run had returned was resumed with the loop idle, and  *)
(* is run again                                                            *)
ResumedWhenIdle ==
    /\ resumes = 1
    /\ Len(runs) = 1
    /\ runs[1].pc = "parse"
    /\ finished[runs[1].job] # {}
    /\ \A id \in DOMAIN jobs : jobs[id].status # "pending"

(* C17: addJob puts a new record in the registry under an identifier that   *)
(* is greater than every identifier given out before, leaves the records    *)
(* that exist as they are, and leaves the new record pending when the loop  *)
(* is busy; when the loop is idle it starts it, and the loop takes the new  *)
(* job at once.                                                             *)
AddJobFresh ==
    /\ [](\A id \in DOMAIN jobs : id < currentJobId)
    /\ [][\A jobId \in DOMAIN dbJobs, batchSize \in env.batchSizes :
            LET data == [jobId |-> jobId, filePath |-> dbJobs[jobId].filePath,
                         batchSize |-> batchSize]
                id == currentJobId
            IN  addJob(data) =>
                  /\ currentJobId' = id + 1
                  /\ DOMAIN jobs' = DOMAIN jobs \cup {id}
                  /\ \A o \in DOMAIN jobs : o < id /\ jobs'[o] = jobs[o]
                  /\ jobs'[id].data = data
                  /\ IF processing
                     THEN /\ jobs'[id].status = "pending"
                          /\ UNCHANGED <<processing, runs>>
                     ELSE /\ processing'
                          /\ jobs'[id].status = "processing"
                          /\ Len(runs') = Len(runs) + 1
                          /\ runs'[Len(runs')].job = id
                          /\ runs'[Len(runs')].pc = "parse"]_vars

(* A second job was added while the first is run *)
AddedWhileBusy ==
    /\ currentJobId = 3
    /\ DOMAIN jobs = {1, 2}
    /\ jobs[1].status = "processing"
    /\ jobs[2].status = "pending"
    /\ Len(runs) = 1 /\ runs[1].job = 1

(* C18: when a run is aborted by an error (its catch block is entered, with *)
(* the storage failing again there or not), the job ends failed and the     *)
(* queue goes on: a job that is pending has a loop to take it, and the loop *)
(* is active or can be started by the next addJob.                          *)
AbortsOnlyTheRun ==
    [][\A n \in 1..Len(runs), updateFails \in BOOLEAN :
          Continue(n, catchBlock(runs[n], jobs, dbJobs, dbProfiles, updateFails)) =>
              /\ statusOf(jobs', runs[n].job) \in {"failed", "absent"}
              /\ (\E id \in DOMAIN jobs' : jobs'[id].status = "pending")
                     => runs' # << >>
              /\ processing' => runs' # << >>]_vars

(* C19: a job that is pending or processing is in the end completed or      *)
(* failed (its record then goes, or stays with that status), unless it is   *)
(* paused or stopped on the way, whatever is done to the other jobs.        *)
EveryJobEnds ==
    \A id \in 1..MaxJobs :
        (id \in DOMAIN jobs /\ jobs[id].status \in {"pending", "processing"})
            ~> (id \notin DOMAIN jobs
                \/ jobs[id].status \in {"completed", "failed", "paused"})

(* C20: when the parser returns an empty list the job row is marked failed  *)
(* with a completion time and without a result path, no profile row is      *)
(* created and no item attempted, and the record leaves the registry.       *)
EmptyListFails ==
    [][\A n \in 1..Len(runs) :
          (/\ runs[n].pc = "parse"
           /\ parseLinkedInUrls(runs[n].data.filePath) = << >>
           /\ ProcessJobParse(n))
          => LET id == runs[n].data.jobId IN
             /\ dbJobs'[id].status = "failed"
             /\ dbJobs'[id].completedAt
             /\ dbJobs'[id].resultPath = 0
             /\ dbProfiles' = dbProfiles
             /\ runs[n].job \notin DOMAIN jobs'
             /\ \A o \in 1..Len(runs') : runs'[o].job # runs[n].job]_vars

-----------------------------------------------------------------------------
(* The export of a user's profiles *)

(* ExcelExporter.exportResults and ExcelProcessor.exportResults, lines 10-26 *)
(* and 50-67: the profile rows of the jobs of the user (all the job rows     *)
(* here are of one user), filtered by status for 'successful' and 'failed'   *)
exportResults(db, profs, type) ==
    LET rows == {p \in BagToSet(profs) :
                    /\ p.jobId \in DOMAIN db
                    /\ CASE type = "successful" -> p.status = "success"
                         [] type = "failed" -> p.status = "failed"
                         [] OTHER -> TRUE}
    IN  [p \in rows |-> CopiesIn(p, profs)]

RECURSIVE SumOver(_, _)
SumOver(db, field) ==
    IF DOMAIN db = {} THEN 0
    ELSE LET n == CHOOSE n \in DOMAIN db : TRUE IN
         db[n][field] + SumOver([o \in DOMAIN db \ {n} |-> db[o]], field)

(* C21: when the jobs of the user are finished (persisted as completed),    *)
(* the export of type all has totalProfiles rows, the export of type        *)
(* successful has successfulProfiles rows and the export of type failed has *)
(* failedProfiles rows, summed over the jobs.                               *)
ExportMatchesCounters ==
    (dbJobs # << >> /\ \A n \in DOMAIN dbJobs : dbJobs[n].status = "completed")
    => /\ BagCardinality(exportResults(dbJobs, dbProfiles, "all"))
              = SumOver(dbJobs, "totalProfiles")
       /\ BagCardinality(exportResults(dbJobs, dbProfiles, "successful"))
              = SumOver(dbJobs, "successfulProfiles")
       /\ BagCardinality(exportResults(dbJobs, dbProfiles, "failed"))
              = SumOver(dbJobs, "failedProfiles")

(* The profile rows of a job with one of the statuses *)
RowsWithStatus(jobId, statuses) ==
    BagCardinality([p \in {q \in BagToSet(dbProfiles) :
                              q.jobId = jobId /\ q.status \in statuses}
                       |-> CopiesIn(p, dbProfiles)])

(* C22: an item labelled retrying is not counted: in every state the        *)
(* persisted failedProfiles of a job is the number of its rows with status  *)
(* failed, and processedProfiles the number with status success or failed.  *)
CountersCountTerminalRows ==
    \A n \in DOMAIN dbJobs :
        /\ dbJobs[n].failedProfiles = RowsWithStatus(n, {"failed"})
        /\ dbJobs[n].processedProfiles = RowsWithStatus(n, {"success", "failed"})

(* The URL of the item an activation has handed to the executor *)
ItemUrl(f) == f.urls[f.k + 1]

(* C23: when the executor call of an item fails, the scheduler writes one   *)
(* row of the item's URL with retryCount one higher and the classified      *)
(* kind, with status retrying if and only if the new retryCount is below 3  *)
(* and the kind is neither not_found nor access_restricted, and with status *)
(* failed otherwise.                                                        *)
FailureLabelled ==
    [][\A n \in 1..Len(runs) :
          (/\ ProcessJobItem(n)
           /\ OK \notin env.provider[ItemUrl(runs[n])])
          => LET f == runs[n]
                 message == CHOOSE m \in env.provider[ItemUrl(f)] : TRUE
                 errorType == categorizeError(Err(message))
             IN  \E row \in findProfile(dbProfiles, f.data.jobId, ItemUrl(f)) :
                    LET retryCount == row.retryCount + 1
                        status == IF /\ retryCount < 3
                                     /\ errorType \notin {NOT_FOUND, ACCESS_RESTRICTED}
                                  THEN "retrying" ELSE "failed"
                    IN  dbProfiles' =
                            (dbProfiles (-) SetToBag({row}))
                                (+) SetToBag({[row EXCEPT !.status = status,
                                                          !.retryCount = retryCount,
                                                          !.errorType = errorType]})]_vars

(* A row that was marked retrying twice is marked failed by the third       *)
(* failure, and a restricted one by the first                               *)
FailedAtThirdFailure ==
    \E p \in BagToSet(dbProfiles) :
        p.status = "failed" /\ p.retryCount = 3 /\ p.errorType = RATE_LIMIT

(* C24: within a run, a profile row that has reached status success or      *)
(* failed is not updated again, whatever the list (each job has one run     *)
(* here): no step takes away a copy of such a row.                          *)
TerminalRowsKept ==
    [][\A p \in BagToSet(dbProfiles) :
          p.status \in {"success", "failed"}
          => CopiesIn(p, dbProfiles') >= CopiesIn(p, dbProfiles)]_vars

(* C25: the items of a run are handed to the executor in list order, each   *)
(* within the batch the loop is at, and one at a time: no two activations   *)
(* have an item of the same job in flight, and when the next item is handed *)
(* over the run has counted every earlier item (lines 193-207 have run).    *)
InOrderOneAtATime ==
    /\ [](\A n \in 1..Len(runs) :
             LET f == runs[n] IN
             /\ \A j \in 1..Len(f.started) : f.started[j] = j - 1
             /\ f.pc = "item" =>
                   /\ f.k = Len(f.started) - 1
                   /\ f.i <= f.k /\ f.k < f.i + f.data.batchSize
                   /\ f.i % f.data.batchSize = 0
             /\ \A m \in 1..Len(runs) :
                   (m # n /\ runs[m].data.jobId = f.data.jobId)
                   => ~(runs[m].pc = "item" /\ f.pc = "item"))
    /\ [][\A n \in 1..Len(runs) :
             (n <= Len(runs') /\ Len(runs'[n].started) = Len(runs[n].started) + 1)
             => runs'[n].processed = Len(runs[n].started)]_vars

(* A resumed job is at its second item again, in the second batch of one *)
SecondItemAfterResume ==
    /\ resumes = 1
    /\ \E n \in 1..Len(runs) :
          /\ runs[n].pc = "item"
          /\ runs[n].started = <<0, 1>>
          /\ runs[n].i = 1

(* C26: when no storage call fails, whatever the provider does to an item,  *)
(* retries exhausted or not, the step that records the item leaves the      *)
(* job's status as it was, in memory and persisted not failed, and the run  *)
(* goes on with the next item or the next batch; a failure is recorded on a *)
(* row of the item's URL.                                                   *)
ProviderFailureGoesOn ==
    [][\A n \in 1..Len(runs) :
          ProcessJobItem(n)
          => LET f == runs[n] IN
             /\ n <= Len(runs')
             /\ LET g == runs'[n] IN
                /\ g.job = f.job
                /\ g.processed = f.processed + 1
                /\ \/ g.pc = "item" /\ g.k = f.k + 1
                   \/ g.pc = "batch" /\ g.i = f.i + f.data.batchSize
                /\ g.failed = f.failed + 1 =>
                      \E p \in BagToSet(dbProfiles') :
                          /\ p.jobId = f.data.jobId /\ p.linkedinUrl = ItemUrl(f)
                          /\ p.status \in {"retrying", "failed"}
                          /\ p.errorType \in ErrorKinds
             /\ statusOf(jobs', f.job) = statusOf(jobs, f.job)
             /\ dbJobs'[f.data.jobId].status = "processing"]_vars

(* The first item failed with retries exhausted, the second was refused     *)
(* outright, and the run is at the third item with the job processing       *)
ThirdItemAfterFailures ==
    \E n \in 1..Len(runs) :
        LET f == runs[n] IN
        /\ f.pc = "item" /\ f.k = 2 /\ f.failed = 2
        /\ statusOf(jobs, f.job) = "processing"
        /\ dbJobs[f.data.jobId].status = "processing"
        /\ \E p \in BagToSet(dbProfiles) :
              p.linkedinUrl = "in/a" /\ p.status = "retrying" /\ p.errorType = CAPTCHA
        /\ \E p \in BagToSet(dbProfiles) :
              p.linkedinUrl = "in/b" /\ p.status = "failed" /\ p.errorType = NOT_FOUND

(* C27: in every state where a job is persisted as completed, its           *)
(* processedProfiles is the number of items of its list and its resultPath  *)
(* is set.                                                                  *)
CompletedMeansAllProcessed ==
    \A id \in DOMAIN dbJobs :
        dbJobs[id].status = "completed"
        => /\ dbJobs[id].processedProfiles = Len(parseLinkedInUrls(dbJobs[id].filePath))
           /\ dbJobs[id].resultPath # 0

(* A job of three items that was paused and resumed is persisted as         *)
(* completed                                                                *)
CompletedAfterResume ==
    /\ resumes = 1
    /\ \E id \in DOMAIN dbJobs :
          /\ dbJobs[id].status = "completed"
          /\ dbJobs[id].processedProfiles = 3
          /\ dbJobs[id].resultPath = id

(* C28: whenever a run is about to attempt the item at index k, the         *)
(* persisted processedProfiles of its job is k and each of the k earlier    *)
(* items of the list has a row of its URL that is no longer pending.        *)
CountersPersistedBeforeNextItem ==
    \A n \in 1..Len(runs) :
        LET f == runs[n] IN
        (f.pc = "item" /\ f.data.jobId \in DOMAIN dbJobs)
        => /\ dbJobs[f.data.jobId].processedProfiles = f.k
           /\ \A j \in 1..f.k :
                 \E p \in BagToSet(dbProfiles) :
                     /\ p.jobId = f.data.jobId /\ p.linkedinUrl = f.urls[j]
                     /\ p.status # "pending"

(* C29: the loop selects the pending job that was added earliest (ids grow  *)
(* in the order of insertion): in a step that makes a job processing, no    *)
(* job added before it is left pending. A job that was paused and resumed   *)
(* is pending under its old id, so it goes before the jobs added after it.  *)
EarliestPendingFirst ==
    [][\A id \in DOMAIN jobs' :
          (jobs'[id].status = "processing" /\ statusOf(jobs, id) # "processing")
          => \A o \in DOMAIN jobs' : o < id => jobs'[o].status # "pending"]_vars

(* The first job, paused and resumed, has been selected again while the     *)
(* second job is still pending                                              *)
ResumedJobGoesFirst ==
    /\ resumes = 1
    /\ 1 \in DOMAIN jobs /\ 2 \in DOMAIN jobs
    /\ jobs[1].status = "processing" /\ jobs[2].status = "pending"
    /\ \E n \in 1..Len(runs) : runs[n].job = 1 /\ runs[n].pc = "parse"
    /\ finished[1] # {}

(* The tracker's rate as the queue formats it *)
Formatted(rate) == toFixed1(rate.profiles, rate.ms) \o " profiles/min"

(* C30: the figures the queue writes after an item are the tracker's: the   *)
(* rate processed / elapsedMinutes (0 when elapsed is 0), written to one    *)
(* decimal, and an estimated completion that is null exactly when           *)
(* remaining <= 0 or rate <= 0 and now + remaining / rate minutes           *)
(* otherwise.                                                               *)
ProgressAsTracked ==
    progress.written # NoWrite
    => LET rate == calculateProcessingRate(progress.processed, progress.elapsed)
           remaining == progress.total - progress.processed
       IN  /\ progress.written.processingRate = Formatted(rate)
           /\ progress.written.estimatedCompletion
                  = calculateETA(remaining, rate, progress.elapsed)

(* C31: a job that is paused and not resumed is not marked completed and    *)
(* its results are not compiled, also when pauseJob comes during the last   *)
(* batch: no step takes a paused job to completed or its run to the         *)
(* compilation of lines 220-250.                                            *)
PausedNeverCompleted ==
    [][\A id \in DOMAIN jobs :
          jobs[id].status = "paused"
          => /\ statusOf(jobs', id) # "completed"
             /\ \A n \in 1..Len(runs') :
                   runs'[n].job = id => runs'[n].pc # "compile"]_vars

(* C32: after the routes have paused or stopped a running job (the only     *)
(* record of its row in the registry), so that the                          *)
(* persisted status and the status in the registry are both paused or both  *)
(* failed, the steps of its run up to the halt keep the two in agreement:   *)
(* the progress update of the item in flight does not put the persisted     *)
(* status back to processing.                                               *)
HaltedStatusPersisted ==
    [][\A n \in 1..Len(runs) :
          LET id == runs[n].job
              row == runs[n].data.jobId
          IN  (/\ ProcessJobParse(n) \/ ProcessJobBatch(n) \/ ProcessJobItem(n)
               /\ id \in DOMAIN jobs /\ row \in DOMAIN dbJobs
               /\ \A o \in DOMAIN jobs : o # id => jobs[o].data.jobId # row
               /\ jobs[id].status \in {"paused", "failed"}
               /\ dbJobs[row].status = jobs[id].status)
              => dbJobs'[row].status = jobs[id].status]_vars

(* C33: the id the routes pass to pauseJob, stopJob and resumeJob, the id   *)
(* of the job row, is the id addJob gave the job: every record of the       *)
(* registry is filed under the id of its row, so that a request for row J   *)
(* reaches the record of J and no other.                                    *)
RoutesReachTheirJob ==
    \A id \in DOMAIN jobs : jobs[id].data.jobId = id

(* C34: at all times after the upload has created them, a job has as many   *)
(* profile rows as its list has URLs, one per URL: no start, resume or      *)
(* second run adds a row.                                                   *)
OneRowPerUrl ==
    \A id \in DOMAIN dbJobs :
        LET linkedinUrls == parseLinkedInUrls(dbJobs[id].filePath) IN
        /\ RowsWithStatus(id, {"pending", "retrying", "success", "failed"})
               = Len(linkedinUrls)
        /\ \A j \in 1..Len(linkedinUrls) :
               Cardinality(findProfile(dbProfiles, id, linkedinUrls[j])) >= 1

(* C35: over the life of a job, pause and resume included, no step lowers   *)
(* the persisted processedProfiles, which never exceeds totalProfiles.      *)
ProcessedNeverDecreases ==
    [][\A id \in DOMAIN dbJobs :
          /\ dbJobs'[id].processedProfiles >= dbJobs[id].processedProfiles
          /\ dbJobs'[id].processedProfiles <= dbJobs'[id].totalProfiles]_vars

(* C36: when a running job was paused and resumed before its run reached    *)
(* the next batch (the run is between batches and the job is pending), the  *)
(* run goes on with the next batch: it does not return to be started again  *)
(* from the first item, and no other job is taken first.                    *)
PauseResumeContinues ==
    [][\A n \in 1..Len(runs) :
          (/\ ProcessJobBatch(n)
           /\ statusOf(jobs, runs[n].job) = "pending"
           /\ runs[n].i < Len(runs[n].urls))
          => /\ n <= Len(runs')
             /\ runs'[n].job = runs[n].job
             /\ runs'[n].pc = "item"
             /\ runs'[n].started = Append(runs[n].started, runs[n].i)]_vars

(* C37: the flag is true exactly while a loop is active: when it is false   *)
(* no job of the registry is pending, and when it is true an activation of  *)
(* the loop is in progress, so that no pending job waits without a loop.    *)
FlagMeansLoop ==
    /\ ~processing => \A id \in DOMAIN jobs : jobs[id].status # "pending"
    /\ processing => \E n \in 1..Len(runs) : InProcessJob(runs[n])

(* The kind a provider message encodes *)
Encoded(message) ==
    CASE message \in {"profile_not_found",
                      "Simulated LinkedIn API error: profile_not_found"} -> NOT_FOUND
      [] message \in {"access_restricted", "unauthorized_token_expired",
                      "Simulated LinkedIn API error: access_restricted"} -> ACCESS_RESTRICTED
      [] message \in {"rate_limit_exceeded",
                      "Simulated LinkedIn API error: rate_limit"} -> RATE_LIMIT
      [] message = "Simulated LinkedIn API error: captcha_required" -> CAPTCHA

(* C38: every message of the provider, for the statuses 404, 403, 401 and   *)
(* 429 and the simulated ones, is classified to the kind it encodes:        *)
(* not_found, access_restricted, rate_limit or captcha.                     *)
ProviderMessagesClassified ==
    (/\ classified.errorType # "none"
     /\ classified.error \in ProviderThrows \cup SimulatedThrows)
    => classified.errorType = Encoded(classified.error.message)

====
